---- MODULE Spec2Model ----
(***************************************************************************)
(* Model of dijkstra.py: class Graph (edge list, addEdge, BellmanFord) and *)
(* the function dijkstra (lazy-deletion priority search).                  *)
(*                                                                         *)
(* A behaviour is one round of the driver loop of the file: a Graph of V   *)
(* vertices is built edge by edge (the driver appends every edge to the    *)
(* list `edges` and to the Graph), dijkstra is run on the edge list for a  *)
(* source and a target, and BellmanFord is run from the same source.       *)
(* The driver names dijkstra's vertices by the strings it read and the     *)
(* Graph's by their integers; one-digit names order like the integers, so  *)
(* both are written as integers here.                                      *)
(* Python integers are unbounded, so weights and costs are plain Int.      *)
(***************************************************************************)
EXTENDS Integers, Sequences, FiniteSets

\* ---------------------------------------------------------------- bounds
MaxV == 2        \* vertex counts 1..MaxV are explored
MaxEdges == 2    \* addEdge is called at most MaxEdges times

VARIABLES
    V,           \* Graph.V
    graph,       \* Graph.graph: the list of [u, v, w]
    edges,       \* the driver's list of (l, r, c) given to dijkstra
    callerVerts, \* the vertex indices the caller passes (edge ends, source, target)
    pc,          \* where the driver is
    f, t,        \* dijkstra's arguments
    q,           \* dijkstra: the heap, as the list of its entries
    seen,        \* dijkstra: the settled set
    mins,        \* dijkstra: the best-known table (a dict)
    result,      \* dijkstra: the returned value
    src,         \* BellmanFord's argument
    dist,        \* BellmanFord: the distance list
    i,           \* BellmanFord: passes done
    printed,     \* BellmanFord printed "Graph contains negative weight cycle"
    bfRet,       \* BellmanFord: the returned value
    raised       \* the exception that ended the round, or "none"

vars == <<V, graph, edges, callerVerts, pc, f, t, q, seen, mins, result,
          src, dist, i, printed, bfRet, raised>>

\* ------------------------------------------------------------ values
\* float("Inf") and finite integers, in one shape
Inf == [inf |-> TRUE, val |-> 0]
Fin(n) == [inf |-> FALSE, val |-> n]

\* a < b on numbers that may be float("Inf")
NumLess(a, b) == ~a.inf /\ (b.inf \/ a.val < b.val)

\* the value returned by a function that ends without a return value
None == [kind |-> "None"]
NotReturned == [kind |-> "none"]

\* dijkstra's two return values: (cost, path) and float("inf")
Pair(cost, path) == [kind |-> "pair", cost |-> cost, path |-> path]
Unreachable == [kind |-> "inf", cost |-> 0, path |-> <<>>]
NoResult == [kind |-> "none", cost |-> 0, path |-> <<>>]

\* ------------------------------------------------------------ Graph
\* list indexing dist[k] on a list of length V: -V..V-1 are valid, negative
\* indices count from the end, anything else raises IndexError
ValidIndex(k) == -V <= k /\ k < V
ListIndex(k) == IF k < 0 THEN k + V ELSE k

\* one examination of an edge in a pass: `if dist[u] != Inf and dist[u] + w <
\* dist[v]: dist[v] = dist[u] + w`; the state is [dist, err]
RelaxEdge(st, e) ==
    IF st.err THEN st
    ELSE IF ~ValidIndex(e[1]) THEN [st EXCEPT !.err = TRUE]
    ELSE IF st.dist[ListIndex(e[1])].inf THEN st
    ELSE IF ~ValidIndex(e[2]) THEN [st EXCEPT !.err = TRUE]
    ELSE LET cand == Fin(st.dist[ListIndex(e[1])].val + e[3])
         IN  IF NumLess(cand, st.dist[ListIndex(e[2])])
             THEN [st EXCEPT !.dist[ListIndex(e[2])] = cand]
             ELSE st

\* `for u, v, w in self.graph:` of one pass, from edge k on
RECURSIVE RelaxFrom(_, _, _)
RelaxFrom(g, k, st) ==
    IF k > Len(g) THEN st ELSE RelaxFrom(g, k + 1, RelaxEdge(st, g[k]))

RelaxPass(g, d) == RelaxFrom(g, 1, [dist |-> d, err |-> FALSE])

\* fault variant: one pass too few
PassCount_Short(n) == n - 2

\* range(self.V - 1): the number of passes
PassCount(n) == n - 1

\* fault variant: <= in place of <
VerifyEdge_Le(d, e) ==
    IF ~ValidIndex(e[1]) THEN "error"
    ELSE IF d[ListIndex(e[1])].inf THEN "no"
    ELSE IF ~ValidIndex(e[2]) THEN "error"
    ELSE IF ~NumLess(d[ListIndex(e[2])], Fin(d[ListIndex(e[1])].val + e[3]))
         THEN "improves" ELSE "no"

\* the test of the verification pass on one edge: "improves", "no" or "error"
VerifyEdge(d, e) ==
    IF ~ValidIndex(e[1]) THEN "error"
    ELSE IF d[ListIndex(e[1])].inf THEN "no"
    ELSE IF ~ValidIndex(e[2]) THEN "error"
    ELSE IF NumLess(Fin(d[ListIndex(e[1])].val + e[3]), d[ListIndex(e[2])])
         THEN "improves" ELSE "no"

\* the verification loop: the first edge that improves or raises ends it
RECURSIVE VerifyFrom(_, _, _)
VerifyFrom(g, k, d) ==
    IF k > Len(g) THEN "no"
    ELSE IF VerifyEdge(d, g[k]) # "no" THEN VerifyEdge(d, g[k])
    ELSE VerifyFrom(g, k + 1, d)

\* ---------------------------------------------------------- dijkstra
\* g[l]: the (c, r) pairs of the edges leaving l, in edge-list order
RECURSIVE AdjFrom(_, _, _)
AdjFrom(es, k, l) ==
    IF k > Len(es) THEN <<>>
    ELSE IF es[k][1] = l THEN <<<<es[k][3], es[k][2]>>>> \o AdjFrom(es, k + 1, l)
    ELSE AdjFrom(es, k + 1, l)

Adj(es, l) == AdjFrom(es, 1, l)

\* order of nested path tuples (v, (u, (..., ()))), written as <<v, u, ...>>
PathLess(p, r) ==
    \E k \in 1..(Len(r)) :
        /\ \A j \in 1..(k - 1) : j <= Len(p) /\ p[j] = r[j]
        /\ (k > Len(p) \/ p[k] < r[k])

\* order of heap entries (cost, v1, path)
EntryLess(a, b) ==
    \/ a.cost < b.cost
    \/ a.cost = b.cost /\ a.v < b.v
    \/ a.cost = b.cost /\ a.v = b.v /\ PathLess(a.path, b.path)

\* heappop: the position of the least entry
MinIndex(h) ==
    CHOOSE k \in 1..Len(h) :
        \A j \in 1..Len(h) : ~EntryLess(h[j], h[k]) /\ (j < k => h[j] # h[k])

RemoveAt(h, k) == SubSeq(h, 1, k - 1) \o SubSeq(h, k + 1, Len(h))

\* fault variant: the new vertex goes to the far end
Extend_Append(v, path) == Append(path, v)

\* path = (v1, path): the new vertex is the head of the nested tuple
Extend(v, path) == <<v>> \o path

\* heappush
HeapPush(h, e) == Append(h, e)

\* mins.get(v, None) is None
Unknown(m, v) == v \notin DOMAIN m

\* mins[v] = n
Put(m, v, n) == [x \in DOMAIN m \cup {v} |-> IF x = v THEN n ELSE m[x]]

\* fault variant: a known vertex is never improved
Discover_FirstOnly(st, sn, cost, path, cr) ==
    IF cr[2] \in sn \/ ~Unknown(st.mins, cr[2]) THEN st
    ELSE [q |-> HeapPush(st.q, [cost |-> cost + cr[1], v |-> cr[2], path |-> path]),
          mins |-> Put(st.mins, cr[2], cost + cr[1])]

\* fault variant: the heappush is missing
Discover_NoPush(st, sn, cost, path, cr) ==
    IF cr[2] \in sn THEN st
    ELSE IF Unknown(st.mins, cr[2]) \/ cost + cr[1] < st.mins[cr[2]]
         THEN [q |-> st.q, mins |-> Put(st.mins, cr[2], cost + cr[1])]
         ELSE st

\* fault variant: `if v2 in seen: continue` is missing
Discover_NoSeenCheck(st, sn, cost, path, cr) ==
    IF Unknown(st.mins, cr[2]) \/ cost + cr[1] < st.mins[cr[2]]
    THEN [q |-> HeapPush(st.q, [cost |-> cost + cr[1], v |-> cr[2], path |-> path]),
          mins |-> Put(st.mins, cr[2], cost + cr[1])]
    ELSE st

\* fault variant: an improvement is pushed but not recorded in mins
Discover_NoRecord(st, sn, cost, path, cr) ==
    IF cr[2] \in sn THEN st
    ELSE IF Unknown(st.mins, cr[2])
         THEN [q |-> HeapPush(st.q, [cost |-> cost + cr[1], v |-> cr[2], path |-> path]),
               mins |-> Put(st.mins, cr[2], cost + cr[1])]
         ELSE IF cost + cr[1] < st.mins[cr[2]]
              THEN [q |-> HeapPush(st.q, [cost |-> cost + cr[1], v |-> cr[2], path |-> path]),
                    mins |-> st.mins]
              ELSE st

\* the body of `for c, v2 in g.get(v1, ())` for one pair; the state is [q, mins]
Discover(st, sn, cost, path, cr) ==
    LET c == cr[1]
        v2 == cr[2]
        next == cost + c
    IN  IF v2 \in sn THEN st
        ELSE IF Unknown(st.mins, v2) \/ next < st.mins[v2]
             THEN [q |-> HeapPush(st.q, [cost |-> next, v |-> v2, path |-> path]),
                   mins |-> Put(st.mins, v2, next)]
             ELSE st

RECURSIVE ExpandFrom(_, _, _, _, _, _)
ExpandFrom(adj, k, st, sn, cost, path) ==
    IF k > Len(adj) THEN st
    ELSE ExpandFrom(adj, k + 1, Discover(st, sn, cost, path, adj[k]), sn, cost, path)

\* ------------------------------------------------------------ driver
\* the weights addEdge is given: negative, zero and positive
Weights == {-1, 0, 1}

InRangeVerts(n) == 0..(n - 1)
\* one index below and one above the range as well
AnyVerts(n) == (-1)..n

\* the cycle and the five-edge graph of the specification's examples
CycleExample == <<<<0, 1, 1>>, <<1, 2, 1>>, <<2, 0, -3>>>>
PathExample == <<<<0, 1, 4>>, <<0, 2, 1>>, <<2, 1, 2>>, <<1, 3, 1>>, <<2, 3, 5>>>>
\* a negative edge without a negative cycle, and a negative edge back to the source
NegativeEdgeExample == <<<<0, 1, 1>>, <<0, 2, 1>>, <<2, 1, -1>>>>
BackEdgeExample == <<<<0, 1, 0>>, <<1, 0, -1>>>>
Preloaded ==
    {<<3, CycleExample>>, <<4, PathExample>>, <<3, NegativeEdgeExample>>,
     <<3, BackEdgeExample>>}

InitWith(start, verts) ==
    /\ V = start[1]
    /\ graph = start[2]
    /\ edges = start[2]
    /\ callerVerts = verts
    /\ pc = "build"
    /\ f = 0 /\ t = 0 /\ src = 0
    /\ q = <<>> /\ seen = {} /\ mins = <<>> /\ result = NoResult
    /\ dist = <<>> /\ i = 0 /\ printed = FALSE /\ bfRet = NotReturned
    /\ raised = "none"

\* Graph(vertices): an empty edge list; or a graph already loaded
Init ==
    \E start \in {<<n, <<>>>> : n \in 1..MaxV} \cup Preloaded :
        InitWith(start, InRangeVerts(start[1]))

\* the same, with callers that also pass indices outside [0, V)
InitAnyIndex ==
    \E n \in 1..MaxV : InitWith(<<n, <<>>>>, AnyVerts(n))

dijkstraVars == <<f, t, q, seen, mins, result>>
bfVars == <<src, dist, i, printed, bfRet>>

\* g.addEdge(u, v, w) and edges.append((u, v, w))
AddEdge ==
    /\ pc = "build"
    /\ Len(graph) < MaxEdges
    /\ \E u \in callerVerts, v \in callerVerts, w \in Weights :
        /\ graph' = Append(graph, <<u, v, w>>)
        /\ edges' = Append(edges, <<u, v, w>>)
    /\ UNCHANGED <<V, callerVerts, pc, dijkstraVars, bfVars, raised>>

\* fault variant: a guard that rejects negative weights
CallDijkstra_RejectNegative ==
    /\ pc = "build"
    /\ \E a \in callerVerts, b \in callerVerts :
        /\ f' = a
        /\ t' = b
        /\ q' = <<[cost |-> 0, v |-> a, path |-> <<>>]>>
        /\ mins' = [x \in {a} |-> 0]
    /\ seen' = {}
    /\ IF \E k \in 1..Len(edges) : edges[k][3] < 0
       THEN pc' = "raised" /\ raised' = "ValueError"
       ELSE pc' = "dijkstra" /\ raised' = raised
    /\ UNCHANGED <<V, graph, edges, callerVerts, result, bfVars>>

\* dijkstra(edges, f, t) up to the while loop
CallDijkstra ==
    /\ pc = "build"
    /\ \E a \in callerVerts, b \in callerVerts :
        /\ f' = a
        /\ t' = b
        /\ q' = <<[cost |-> 0, v |-> a, path |-> <<>>]>>
        /\ mins' = [x \in {a} |-> 0]
    /\ seen' = {}
    /\ pc' = "dijkstra"
    /\ UNCHANGED <<V, graph, edges, callerVerts, result, bfVars, raised>>

Popped == q[MinIndex(q)]
Rest == RemoveAt(q, MinIndex(q))

\* an iteration that pops an entry of a settled vertex
PopStale ==
    /\ pc = "dijkstra" /\ q # <<>>
    /\ Popped.v \in seen
    /\ q' = Rest
    /\ UNCHANGED <<V, graph, edges, callerVerts, pc, f, t, seen, mins, result,
                   bfVars, raised>>

\* an iteration that settles the target and returns
PopTarget ==
    /\ pc = "dijkstra" /\ q # <<>>
    /\ Popped.v \notin seen
    /\ Popped.v = t
    /\ q' = Rest
    /\ seen' = seen \cup {Popped.v}
    /\ result' = Pair(Popped.cost, Extend(Popped.v, Popped.path))
    /\ pc' = "returned"
    /\ UNCHANGED <<V, graph, edges, callerVerts, f, t, mins, bfVars, raised>>

\* an iteration that settles another vertex and looks at its edges
PopSettle ==
    /\ pc = "dijkstra" /\ q # <<>>
    /\ Popped.v \notin seen
    /\ Popped.v # t
    /\ LET sn == seen \cup {Popped.v}
           st == ExpandFrom(Adj(edges, Popped.v), 1, [q |-> Rest, mins |-> mins],
                            sn, Popped.cost, Extend(Popped.v, Popped.path))
       IN  /\ seen' = sn
           /\ q' = st.q
           /\ mins' = st.mins
    /\ UNCHANGED <<V, graph, edges, callerVerts, pc, f, t, result, bfVars, raised>>

\* the loop ends on an empty heap: return float("inf")
Exhausted ==
    /\ pc = "dijkstra" /\ q = <<>>
    /\ result' = Unreachable
    /\ pc' = "returned"
    /\ UNCHANGED <<V, graph, edges, callerVerts, f, t, q, seen, mins, bfVars, raised>>

\* g.BellmanFord(src), with the source dijkstra was given: step 1
CallBellmanFord ==
    /\ pc = "returned"
    /\ src' = f
    /\ IF ValidIndex(f)
       THEN /\ dist' = [x \in 0..(V - 1) |-> IF x = ListIndex(f) THEN Fin(0) ELSE Inf]
            /\ pc' = "relax"
            /\ raised' = raised
       ELSE /\ dist' = [x \in 0..(V - 1) |-> Inf]
            /\ pc' = "raised"
            /\ raised' = "IndexError"
    /\ i' = 0
    /\ UNCHANGED <<V, graph, edges, callerVerts, dijkstraVars, printed, bfRet>>

\* step 2: one of the V - 1 passes
Pass ==
    /\ pc = "relax" /\ i < PassCount(V)
    /\ LET st == RelaxPass(graph, dist)
       IN  /\ dist' = st.dist
           /\ IF st.err
              THEN pc' = "raised" /\ raised' = "IndexError" /\ i' = i
              ELSE pc' = pc /\ raised' = raised /\ i' = i + 1
    /\ UNCHANGED <<V, graph, edges, callerVerts, dijkstraVars, src, printed, bfRet>>

\* step 3: the verification loop and the return
Verify ==
    /\ pc = "relax" /\ i >= PassCount(V)
    /\ LET r == VerifyFrom(graph, 1, dist)
       IN  IF r = "error"
           THEN /\ pc' = "raised" /\ raised' = "IndexError"
                /\ UNCHANGED <<printed, bfRet>>
           ELSE /\ pc' = "done" /\ raised' = raised
                /\ printed' = (r = "improves")
                /\ bfRet' = None
    /\ UNCHANGED <<V, graph, edges, callerVerts, dijkstraVars, src, dist, i>>

Next ==
    \/ AddEdge
    \/ CallDijkstra
    \/ PopStale
    \/ PopTarget
    \/ PopSettle
    \/ Exhausted
    \/ CallBellmanFord
    \/ Pass
    \/ Verify

Spec == Init /\ [][Next]_vars

SpecAnyIndex == InitAnyIndex /\ [][Next]_vars

\* a call of dijkstra runs to completion: the loop keeps iterating
DijkstraLoop == PopStale \/ PopTarget \/ PopSettle \/ Exhausted
FairSpec == Spec /\ WF_vars(DijkstraLoop)

\* ------------------------------------------------- reference notions
\* (graph theory the claims are stated in; none of this is program code)
MaxN == IF MaxV < 4 THEN 4 ELSE MaxV

\* the sequences of distinct vertices of 0..n-1
SimpleSeqsOf ==
    [n \in 1..MaxN |->
        {s \in UNION {[1..k -> 0..(n - 1)] : k \in 1..n} :
            \A a \in DOMAIN s, b \in DOMAIN s : a # b => s[a] # s[b]}]

HopWeights(g, a, b) == {g[k][3] : k \in {j \in 1..Len(g) : g[j][1] = a /\ g[j][2] = b}}
HasEdge(g, a, b) == \E k \in 1..Len(g) : g[k][1] = a /\ g[k][2] = b
MinOf(S) == CHOOSE x \in S : \A y \in S : x <= y

\* s is a directed path of g
IsPath(g, s) == \A j \in 1..(Len(s) - 1) : HasEdge(g, s[j], s[j + 1])

\* its least weight, taking the lightest of parallel edges
RECURSIVE WeightFrom(_, _, _)
WeightFrom(g, s, j) ==
    IF j >= Len(s) THEN 0
    ELSE MinOf(HopWeights(g, s[j], s[j + 1])) + WeightFrom(g, s, j + 1)

SimplePaths(g, n, a, b) ==
    {s \in SimpleSeqsOf[n] : s[1] = a /\ s[Len(s)] = b /\ IsPath(g, s)}

Reachable(g, n, a, b) ==
    \E s \in SimpleSeqsOf[n] : s[1] = a /\ s[Len(s)] = b /\ IsPath(g, s)
MinDist(g, n, a, b) == MinOf({WeightFrom(g, s, 1) : s \in SimplePaths(g, n, a, b)})

\* the distance from a to b as an entry of a distance table
TrueDist(g, n, a, b) ==
    LET P == SimplePaths(g, n, a, b)
    IN  IF P = {} THEN Inf ELSE Fin(MinOf({WeightFrom(g, s, 1) : s \in P}))

\* a negative-weight cycle that can be reached from a
NegCycleReachable(g, n, a) ==
    \E s \in SimpleSeqsOf[n] :
        /\ IsPath(g, s)
        /\ HasEdge(g, s[Len(s)], s[1])
        /\ WeightFrom(g, s, 1) + MinOf(HopWeights(g, s[Len(s)], s[1])) < 0
        /\ Reachable(g, n, a, s[1])

NonNegative(g) == \A k \in 1..Len(g) : g[k][3] >= 0
HasNegativeEdge(g) == \E k \in 1..Len(g) : g[k][3] < 0

\* the sums the weights of the edges along s can be chosen to have
RECURSIVE SumsFrom(_, _, _)
SumsFrom(g, s, j) ==
    IF j >= Len(s) THEN {0}
    ELSE {w + r : w \in HopWeights(g, s[j], s[j + 1]), r \in SumsFrom(g, s, j + 1)}

Reverse(s) == [j \in 1..Len(s) |-> s[Len(s) + 1 - j]]

DijkstraReturned == result.kind \in {"pair", "inf"}
RoundDone == pc = "done"

PassesDone == pc = "relax" /\ i >= PassCount(V)

\* ------------------------------------------------------------ claims

\* C1: with non-negative weights, the cost of a returned (cost, path) pair is
\* the minimum weight of a path from source to target, and it equals the
\* distance BellmanFord has for the target from the same source.
C1_DijkstraCostIsMinimal ==
    (pc \in {"returned", "done"} /\ result.kind = "pair" /\ NonNegative(edges)) =>
        /\ Fin(result.cost) = TrueDist(edges, V, f, t)
        /\ (RoundDone => ~printed /\ dist[t] = Fin(result.cost))

C1_Witness ==
    /\ RoundDone /\ result.kind = "pair" /\ NonNegative(edges)
    /\ Len(result.path) >= 3
    /\ \E s \in SimplePaths(edges, V, f, t) : WeightFrom(edges, s, 1) > result.cost

\* C2: BellmanFord reports a negative cycle exactly when a negative-weight
\* cycle can be reached from src; the three-vertex cycle 1, 1, -3 is reported
\* from source 0.
C2_NegativeCycleReportedIffReachable ==
    RoundDone =>
        /\ printed <=> NegCycleReachable(graph, V, src)
        /\ (graph = CycleExample /\ src = 0 => printed)

C2_Witness == RoundDone /\ graph = CycleExample /\ V = 3 /\ src = 0 /\ printed

\* C3: without a negative cycle reachable from the source, after the V - 1
\* passes every reachable vertex holds its minimum path weight, every other
\* vertex holds Inf, and one more pass changes nothing.
C3_TableFinalAfterPasses ==
    (PassesDone /\ ~NegCycleReachable(graph, V, src)) =>
        /\ \A v \in 0..(V - 1) : dist[v] = TrueDist(graph, V, src, v)
        /\ RelaxPass(graph, dist) = [dist |-> dist, err |-> FALSE]

C3_Witness ==
    /\ PassesDone /\ ~NegCycleReachable(graph, V, src)
    /\ HasNegativeEdge(graph)
    /\ \E v \in 0..(V - 1) : dist[v].inf
    /\ \E v \in 0..(V - 1) : v # src /\ ~dist[v].inf

\* C4 (as claimed): BellmanFord returns the distance table when there is no
\* negative cycle and a NegativeCycleDetected signal when there is one.
C4_ExplicitOutcome ==
    RoundDone =>
        bfRet.kind = IF printed THEN "NegativeCycleDetected" ELSE "DistanceTable"

\* C5 (as claimed): the returned path starts at the source, ends at the
\* target, follows edges of the input, and its edge weights can sum to the cost.
C5_PathSourceToTarget ==
    result.kind = "pair" =>
        /\ result.path[1] = f
        /\ result.path[Len(result.path)] = t
        /\ IsPath(edges, result.path)
        /\ result.cost \in SumsFrom(edges, result.path, 1)

\* C5 (amended): the returned path is backward-linked: it lists the vertices
\* from the target back to the source; read backwards it starts at the source,
\* ends at the target, follows edges of the input, and its edge weights can sum
\* to the cost. source = target gives cost 0 and the one-vertex path; the
\* five-edge example gives cost 4 and the path 3, 1, 2, 0 from 0 to 3.
C5_PathTargetBackToSource ==
    /\ result.kind = "pair" =>
        /\ result.path[1] = t
        /\ result.path[Len(result.path)] = f
        /\ IsPath(edges, Reverse(result.path))
        /\ result.cost \in SumsFrom(edges, Reverse(result.path), 1)
    /\ (DijkstraReturned /\ f = t) => result = Pair(0, <<f>>)
    /\ (DijkstraReturned /\ edges = PathExample /\ f = 0 /\ t = 3) =>
        result = Pair(4, <<3, 1, 2, 0>>)

C5_Witness ==
    /\ edges = PathExample /\ f = 0 /\ t = 3
    /\ result.kind = "pair" /\ Len(result.path) = 4

\* C6: whatever the signs of the weights, a call of dijkstra terminates, and
\* it returns float("inf") exactly when no path leads from source to target.
C6_TerminatesUnreachableIffNoPath ==
    /\ [](DijkstraReturned => (result.kind = "inf" <=> ~Reachable(edges, V, f, t)))
    /\ ((pc = "dijkstra") ~> DijkstraReturned)

C6_Witness ==
    /\ result.kind = "inf" /\ HasNegativeEdge(edges)
    /\ Cardinality(seen) >= 2

\* C7 (as claimed): an edge end, a source or a target outside [0, V) is never
\* accepted: no edge with such an end is stored, and no call given such an
\* index returns a normal outcome.
InRange(k) == 0 <= k /\ k < V
EdgesInRange(g) == \A k \in 1..Len(g) : InRange(g[k][1]) /\ InRange(g[k][2])
C7_OutOfRangeSurfaced ==
    /\ EdgesInRange(graph)
    /\ DijkstraReturned => (InRange(f) /\ InRange(t) /\ EdgesInRange(edges))
    /\ RoundDone => (InRange(src) /\ EdgesInRange(graph))

\* C8: dijkstra has no guard against negative weights: with a negative edge
\* it still returns normally, and on the edges (0,1,1), (0,2,1), (2,1,-1) from
\* 0 to 1 it returns a cost above the minimum, which BellmanFord finds.
C8_NegativeEdgeUnguarded ==
    /\ (pc \notin {"build", "dijkstra"} /\ HasNegativeEdge(edges)) =>
        (DijkstraReturned /\ raised = "none")
    /\ (RoundDone /\ V = 3 /\ edges = NegativeEdgeExample /\ f = 0 /\ t = 1) =>
        /\ result.kind = "pair"
        /\ ~printed
        /\ dist[t] = Fin(MinDist(edges, V, f, t))
        /\ result.cost > MinDist(edges, V, f, t)

C8_Witness ==
    /\ RoundDone /\ V = 3 /\ edges = NegativeEdgeExample /\ f = 0 /\ t = 1
    /\ ~NegCycleReachable(edges, V, f)
    /\ result.kind = "pair" /\ result.cost > dist[t].val

\* C9: a popped entry of a settled vertex is dropped and nothing else
\* changes; a vertex is settled only when its entry is popped and it was not
\* settled; a settled vertex stays settled, keeps its best-known value and
\* gets no new frontier entry.
EntriesOf(h, v) == Cardinality({k \in 1..Len(h) : h[k].v = v})
C9_LazyDeletion ==
    [][pc = "dijkstra" =>
        /\ (q # <<>> /\ Popped.v \in seen) =>
            (seen' = seen /\ mins' = mins /\ q' = Rest)
        /\ seen' # seen =>
            (q # <<>> /\ Popped.v \notin seen /\ seen' = seen \cup {Popped.v})
        /\ \A v \in seen :
            /\ v \in seen'
            /\ v \in DOMAIN mins /\ v \in DOMAIN mins' /\ mins'[v] = mins[v]
            /\ EntriesOf(q', v) <= EntriesOf(q, v)]_vars

C9_Witness ==
    /\ pc = "dijkstra" /\ q # <<>> /\ Popped.v \in seen
    /\ Popped.cost > mins[Popped.v]

\* C10: every vertex with a best-known value that is not settled has a
\* frontier entry with exactly that value and none with a smaller cost, so an
\* entry that settles a vertex carries the vertex's best-known value.
C10_FrontierCarriesBestKnown ==
    pc # "build" =>
        /\ \A v \in (DOMAIN mins) \ seen :
            /\ \E k \in 1..Len(q) : q[k].v = v /\ q[k].cost = mins[v]
            /\ \A k \in 1..Len(q) : q[k].v = v => q[k].cost >= mins[v]
        /\ (pc = "dijkstra" /\ q # <<>> /\ Popped.v \notin seen) =>
            (Popped.v \in DOMAIN mins /\ Popped.cost = mins[Popped.v])

C10_Witness ==
    /\ pc = "dijkstra" /\ HasNegativeEdge(edges)
    /\ \E v \in (DOMAIN mins) \ seen : EntriesOf(q, v) >= 2
    /\ q # <<>> /\ Popped.v \notin seen /\ Popped.cost < 0

====
